---- MODULE Spec2Model ----
(***************************************************************************)
(* Model of the projected Gauss-Seidel impulse solver,                     *)
(* Simbody/src/PGSImpulseSolver.cpp (PGSImpulseSolver::solve and its local *)
(* utilities).                                                             *)
(*                                                                         *)
(* Real numbers are held in fixed point: the integer n stands for the real *)
(* n/ONE.  Sums and differences are integer sums and differences; products,*)
(* quotients and square roots are rounded to the nearest representable     *)
(* value, as the floating-point operations of the source are.  Infinity    *)
(* and NaN are kept as two distinguished values with the IEEE rules the    *)
(* source relies on (x/Infinity = 0, x/0 = Infinity, 0/0 = NaN, every      *)
(* comparison with NaN false).                                             *)
(***************************************************************************)
EXTENDS Integers, Sequences, FiniteSets, TLC

\* ------------------------------------------------------------------ bounds
\* Fixed-point resolution: the integer ONE stands for the real 1.
ONE == 1000
\* Dimension m of A, rhs and pi.
M == 4
\* Iteration cap m_maxIters of the solver object.
MaxIters == 3
\* Number of solve calls made on the solver object.
MaxCalls == 2

\* ------------------------------------------------------- fixed-point reals
Infinity == 1000000000
NaN == -1000000000

Abs(x) == IF x < 0 THEN -x ELSE x

\* n/d for integers n and d > 0, rounded to nearest.
RoundDiv(n, d) ==
    IF n >= 0 THEN (2 * n + d) \div (2 * d)
              ELSE -((2 * (-n) + d) \div (2 * d))

\* a*b on reals.
RMul(a, b) == RoundDiv(a * b, ONE)

\* a/b on finite reals, b # 0.
RDiv(a, b) == IF b > 0 THEN RoundDiv(a * ONE, b) ELSE RoundDiv((-a) * ONE, -b)

\* The decimal n/d as a real.
Dec(n, d) == RoundDiv(n * ONE, d)

square(x) == RMul(x, x)

RECURSIVE SqrtIter(_, _, _)
SqrtIter(n, lo, hi) ==
    IF lo >= hi THEN lo
    ELSE LET mid == (lo + hi + 1) \div 2
         IN  IF mid * mid <= n THEN SqrtIter(n, mid, hi)
                               ELSE SqrtIter(n, lo, mid - 1)

\* Integer square root of n >= 0, rounded to nearest.
ISqrt(n) ==
    LET r == SqrtIter(n, 0, IF n < 46340 THEN n ELSE 46340)
    IN  IF n - r * r > r THEN r + 1 ELSE r

\* std::sqrt on a finite real x >= 0.
RSqrt(x) == ISqrt(x * ONE)

RMax(a, b) == IF a >= b THEN a ELSE b

\* --------------------------------------------------------- index utilities
Range(s) == {s[i] : i \in 1..Len(s)}

RECURSIVE SumSeq(_)
SumSeq(s) == IF Len(s) = 0 THEN 0 ELSE s[1] + SumSeq(Tail(s))

\* ----------------------------------------------------- row-sum primitives
\* A plausible slip: the sum runs over every column of A.
RECURSIVE doRowSumAllFrom(_, _, _, _)
doRowSumAllFrom(c, row, A, pi) ==
    IF c > M THEN 0
    ELSE RMul(A[row][c], pi[c]) + doRowSumAllFrom(c + 1, row, A, pi)

doRowSumAllColumns(columns, row, A, pi) == doRowSumAllFrom(1, row, A, pi)

\* doRowSum: A[row]*pi, but only looking at the given columns.
RECURSIVE doRowSum(_, _, _, _)
doRowSum(columns, row, A, pi) ==
    IF Len(columns) = 0 THEN 0
    ELSE RMul(A[row][columns[1]], pi[columns[1]])
         + doRowSum(Tail(columns), row, A, pi)

\* doRowSums: sums[i] = A[rows[i]]*pi over the given columns.
RECURSIVE doRowSumsCol(_, _, _, _, _)
doRowSumsCol(columns, rows, A, pi, sums) ==
    IF Len(columns) = 0 THEN sums
    ELSE doRowSumsCol(Tail(columns), rows, A, pi,
            [i \in 1..Len(rows) |->
                sums[i] + RMul(A[rows[i]][columns[1]], pi[columns[1]])])

doRowSums(columns, rows, A, pi) ==
    doRowSumsCol(columns, rows, A, pi, [i \in 1..Len(rows) |-> 0])

\* ------------------------------------------------------- update primitives
\* A plausible slip: a skipped row reports no error at all.
doUpdateDropsSkipped(row, A, rhs, SOR, rowSum, pi) ==
    LET Arr == A[row][row]
        er  == rhs[row] - rowSum
    IN  IF Arr > 0
        THEN [pi |-> [pi EXCEPT ![row] = @ + RDiv(RMul(SOR, er), Arr)],
              er2 |-> square(er)]
        ELSE [pi |-> pi, er2 |-> 0]

\* A plausible slip: the error is returned unsquared.
doUpdateSigned(row, A, rhs, SOR, rowSum, pi) ==
    LET Arr == A[row][row]
        er  == rhs[row] - rowSum
    IN  [pi  |-> IF Arr > 0
                 THEN [pi EXCEPT ![row] = @ + RDiv(RMul(SOR, er), Arr)]
                 ELSE pi,
         er2 |-> er]

\* doUpdate: given a rowSum, update one element of pi and return the squared
\* error; a nonpositive diagonal quietly skips the update.
doUpdate(row, A, rhs, SOR, rowSum, pi) ==
    LET Arr == A[row][row]
        er  == rhs[row] - rowSum
    IN  [pi  |-> IF Arr > 0
                 THEN [pi EXCEPT ![row] = @ + RDiv(RMul(SOR, er), Arr)]
                 ELSE pi,
         er2 |-> square(er)]

\* doUpdates: the same for several rows, returning the sum of the squared
\* errors of those rows.
RECURSIVE doUpdatesFrom(_, _, _, _, _, _, _, _)
doUpdatesFrom(i, rows, A, rhs, SOR, rowSums, pi, er2) ==
    IF i > Len(rows) THEN [pi |-> pi, er2 |-> er2]
    ELSE LET row == rows[i]
             Arr == A[row][row]
             er  == rhs[row] - rowSums[i]
         IN  doUpdatesFrom(i + 1, rows, A, rhs, SOR, rowSums,
                 IF Arr > 0
                 THEN [pi EXCEPT ![row] = @ + RDiv(RMul(SOR, er), Arr)]
                 ELSE pi,
                 er2 + square(er))

doUpdates(rows, A, rhs, SOR, rowSums, pi) ==
    doUpdatesFrom(1, rows, A, rhs, SOR, rowSums, pi, 0)

\* ------------------------------------------------------------- projections
\* A plausible slip: a multiplier of exactly 0 is released as well.
boundUnilateralOffAtZero(sign, x) ==
    IF sign * x >= 0 THEN [pi |-> 0, cond |-> "UniOff"]
                     ELSE [pi |-> x, cond |-> "UniActive"]

\* A plausible slip: the violation is reported but the multiplier is kept.
boundUnilateralKeeps(sign, x) ==
    IF sign * x > 0 THEN [pi |-> x, cond |-> "UniOff"]
                    ELSE [pi |-> x, cond |-> "UniActive"]

\* boundUnilateral: ensure sign*pi <= 0.
boundUnilateral(sign, x) ==
    IF sign * x > 0 THEN [pi |-> 0, cond |-> "UniOff"]
                    ELSE [pi |-> x, cond |-> "UniActive"]

\* A plausible slip: a multiplier exactly at a bound counts as clamped.
boundScalarClampsAtBound(lb, x, ub) ==
    IF x >= ub THEN [pi |-> ub, cond |-> "SlipHigh"]
    ELSE IF x <= lb THEN [pi |-> lb, cond |-> "SlipLow"]
    ELSE [pi |-> x, cond |-> "Engaged"]

\* boundScalar: ensure lb <= pi <= ub.
boundScalar(lb, x, ub) ==
    IF x > ub THEN [pi |-> ub, cond |-> "SlipHigh"]
    ELSE IF x < lb THEN [pi |-> lb, cond |-> "SlipLow"]
    ELSE [pi |-> x, cond |-> "Engaged"]

RECURSIVE Norm2(_, _)
Norm2(IV, pi) ==
    IF Len(IV) = 0 THEN 0 ELSE square(pi[IV[1]]) + Norm2(Tail(IV), pi)

\* A plausible slip: the root is taken of the ratio of the lengths, not of
\* the ratio of their squares.
boundVectorRootOfLengths(maxLen, IV, pi) ==
    LET maxLen2 == square(maxLen)
        piNorm2 == Norm2(IV, pi)
    IN  IF piNorm2 <= maxLen2 THEN [pi |-> pi, cond |-> "Rolling"]
        ELSE LET scale == RSqrt(RDiv(maxLen, RSqrt(piNorm2)))
             IN  [pi |-> [i \in DOMAIN pi |->
                            IF i \in Range(IV) THEN RMul(pi[i], scale)
                                               ELSE pi[i]],
                  cond |-> "Sliding"]

\* A plausible slip: a vector exactly at the cap is scaled too.
boundVectorStrict(maxLen, IV, pi) ==
    LET maxLen2 == square(maxLen)
        piNorm2 == Norm2(IV, pi)
    IN  IF piNorm2 < maxLen2 THEN [pi |-> pi, cond |-> "Rolling"]
        ELSE LET scale == RSqrt(RDiv(maxLen2, piNorm2))
             IN  [pi |-> [i \in DOMAIN pi |->
                            IF i \in Range(IV) THEN RMul(pi[i], scale)
                                               ELSE pi[i]],
                  cond |-> "Sliding"]

\* boundVector: ensure ||pi[IV]|| <= maxLen by scaling.
boundVector(maxLen, IV, pi) ==
    LET maxLen2 == square(maxLen)
        piNorm2 == Norm2(IV, pi)
    IN  IF piNorm2 <= maxLen2 THEN [pi |-> pi, cond |-> "Rolling"]
        ELSE LET scale == RSqrt(RDiv(maxLen2, piNorm2))
             IN  [pi |-> [i \in DOMAIN pi |->
                            IF i \in Range(IV) THEN RMul(pi[i], scale)
                                               ELSE pi[i]],
                  cond |-> "Sliding"]

\* A plausible slip: the normals are scaled along with the friction.
boundFrictionScalesAll(mu, IN_, IF_, pi) ==
    LET N2    == Norm2(IN_, pi)
        F2    == Norm2(IF_, pi)
        mu2N2 == RMul(RMul(mu, mu), N2)
    IN  IF F2 <= mu2N2 THEN [pi |-> pi, cond |-> "Rolling"]
        ELSE LET scale == RSqrt(RDiv(mu2N2, F2))
             IN  [pi |-> [i \in DOMAIN pi |->
                            IF i \in Range(IF_) \cup Range(IN_)
                            THEN RMul(pi[i], scale) ELSE pi[i]],
                  cond |-> "Sliding"]

\* boundFriction: ensure ||pi[IF]|| <= mu*||pi[IN]|| by scaling pi[IF].
boundFriction(mu, IN_, IF_, pi) ==
    LET N2    == Norm2(IN_, pi)
        F2    == Norm2(IF_, pi)
        mu2N2 == RMul(RMul(mu, mu), N2)
    IN  IF F2 <= mu2N2 THEN [pi |-> pi, cond |-> "Rolling"]
        ELSE LET scale == RSqrt(RDiv(mu2N2, F2))
             IN  [pi |-> [i \in DOMAIN pi |->
                            IF i \in Range(IF_) THEN RMul(pi[i], scale)
                                                ELSE pi[i]],
                  cond |-> "Sliding"]

\* ------------------------------------------------------ constraint records
\* UniContactRT::hasFriction(): the contact carries friction multipliers.
hasFriction(rt) == Len(rt.m_Fk) > 0

Phases == {0, 1}

\* Status values a record carries before any solve has written it.
UniNA  == "UniNA"
FricNA == "FricNA"
BndNA  == "BndNA"

UncondRT(mults) == [m_mults |-> mults]

UniContactRT(type, Nk, Fk, mu, sign, knownPi) ==
    [m_type |-> type, m_Nk |-> Nk, m_Fk |-> Fk, m_effMu |-> mu,
     m_sign |-> sign, m_knownPi |-> knownPi,
     m_contactCond |-> UniNA, m_frictionCond |-> FricNA]

UniSpeedRT(ix) == [m_ix |-> ix]

BoundedRT(ix, lb, ub) ==
    [m_ix |-> ix, m_lb |-> lb, m_ub |-> ub, m_boundedCond |-> BndNA]

ConstraintLtdFrictionRT(Fk, Nk, mu) ==
    [m_Fk |-> Fk, m_Nk |-> Nk, m_effMu |-> mu, m_frictionCond |-> FricNA]

StateLtdFrictionRT(Fk, knownN, mu) ==
    [m_Fk |-> Fk, m_knownN |-> knownN, m_effMu |-> mu,
     m_frictionCond |-> FricNA]

\* ----------------------------------------------------------- sweep bodies
\* Each body is one pass of the corresponding for-loop body of solve: the
\* row sums, the update, the projection and the residual it reports.
\*   pi   the multipliers after the body      upd  pi after the update only
\*   rt   the record with its status written  er2  the squared residual
\*   enf  whether er2 is counted as enforced  rows, rowSums  what was updated

UncondBody(rt, part, A, rhs, SOR, pi) ==
    LET rowSums == doRowSums(part, rt.m_mults, A, pi)
        u       == doUpdates(rt.m_mults, A, rhs, SOR, rowSums, pi)
    IN  [pi |-> u.pi, upd |-> u.pi, rt |-> rt, er2 |-> u.er2, enf |-> TRUE,
         rows |-> rt.m_mults, rowSums |-> rowSums]

\* A plausible slip: the residual is counted by the status the record held
\* before this pass, not by the one the projection has just reported.
NormalBodyStaleStatus(rt, part, A, rhs, SOR, pi) ==
    LET Nk     == rt.m_Nk
        rowSum == doRowSum(part, Nk, A, pi)
        u      == doUpdate(Nk, A, rhs, SOR, rowSum, pi)
        b      == boundUnilateral(rt.m_sign, u.pi[Nk])
    IN  [pi |-> [u.pi EXCEPT ![Nk] = b.pi], upd |-> u.pi,
         rt |-> [rt EXCEPT !.m_contactCond = b.cond],
         er2 |-> u.er2, enf |-> (rt.m_contactCond = "UniActive"),
         rows |-> <<Nk>>, rowSums |-> <<rowSum>>]

NormalBody(rt, part, A, rhs, SOR, pi) ==
    LET Nk     == rt.m_Nk
        rowSum == doRowSum(part, Nk, A, pi)
        u      == doUpdate(Nk, A, rhs, SOR, rowSum, pi)
        b      == boundUnilateral(rt.m_sign, u.pi[Nk])
    IN  [pi |-> [u.pi EXCEPT ![Nk] = b.pi], upd |-> u.pi,
         rt |-> [rt EXCEPT !.m_contactCond = b.cond],
         er2 |-> u.er2, enf |-> (b.cond = "UniActive"),
         rows |-> <<Nk>>, rowSums |-> <<rowSum>>]

\* A plausible slip: the cap is always taken from pi at the normal index,
\* also when the normal is Known.
FrictionBodyIgnoresKnown(rt, part, A, rhs, SOR, pi) ==
    LET Nk      == rt.m_Nk
        Fk      == rt.m_Fk
        rowSums == doRowSums(part, Fk, A, pi)
        u       == doUpdates(Fk, A, rhs, SOR, rowSums, pi)
        N       == Abs(u.pi[Nk])
        b       == boundVector(RMul(rt.m_effMu, N), Fk, u.pi)
    IN  [pi |-> b.pi, upd |-> u.pi,
         rt |-> [rt EXCEPT !.m_frictionCond = b.cond],
         er2 |-> u.er2, enf |-> (b.cond = "Rolling"),
         rows |-> Fk, rowSums |-> rowSums]

FrictionBody(rt, part, A, rhs, SOR, pi) ==
    LET Nk      == rt.m_Nk
        Fk      == rt.m_Fk
        rowSums == doRowSums(part, Fk, A, pi)
        u       == doUpdates(Fk, A, rhs, SOR, rowSums, pi)
        N       == Abs(IF rt.m_type = "Known" THEN rt.m_knownPi ELSE u.pi[Nk])
        b       == boundVector(RMul(rt.m_effMu, N), Fk, u.pi)
    IN  [pi |-> b.pi, upd |-> u.pi,
         rt |-> [rt EXCEPT !.m_frictionCond = b.cond],
         er2 |-> u.er2, enf |-> (b.cond = "Rolling"),
         rows |-> Fk, rowSums |-> rowSums]

\* A plausible slip: the bound is applied before the update, not after it.
BoundedBodyProjectsFirst(rt, part, A, rhs, SOR, pi) ==
    LET rx     == rt.m_ix
        b      == boundScalar(rt.m_lb, pi[rx], rt.m_ub)
        q      == [pi EXCEPT ![rx] = b.pi]
        rowSum == doRowSum(part, rx, A, q)
        u      == doUpdate(rx, A, rhs, SOR, rowSum, q)
    IN  [pi |-> u.pi, upd |-> u.pi,
         rt |-> [rt EXCEPT !.m_boundedCond = b.cond],
         er2 |-> u.er2, enf |-> (b.cond = "Engaged"),
         rows |-> <<rx>>, rowSums |-> <<rowSum>>]

BoundedBody(rt, part, A, rhs, SOR, pi) ==
    LET rx     == rt.m_ix
        rowSum == doRowSum(part, rx, A, pi)
        u      == doUpdate(rx, A, rhs, SOR, rowSum, pi)
        b      == boundScalar(rt.m_lb, u.pi[rx], rt.m_ub)
    IN  [pi |-> [u.pi EXCEPT ![rx] = b.pi], upd |-> u.pi,
         rt |-> [rt EXCEPT !.m_boundedCond = b.cond],
         er2 |-> u.er2, enf |-> (b.cond = "Engaged"),
         rows |-> <<rx>>, rowSums |-> <<rowSum>>]

StateLtdBody(rt, part, A, rhs, SOR, pi) ==
    LET Fk      == rt.m_Fk
        rowSums == doRowSums(part, Fk, A, pi)
        u       == doUpdates(Fk, A, rhs, SOR, rowSums, pi)
        b       == boundVector(RMul(rt.m_effMu, rt.m_knownN), Fk, u.pi)
    IN  [pi |-> b.pi, upd |-> u.pi,
         rt |-> [rt EXCEPT !.m_frictionCond = b.cond],
         er2 |-> u.er2, enf |-> (b.cond = "Rolling"),
         rows |-> Fk, rowSums |-> rowSums]

ConsLtdBody(rt, part, A, rhs, SOR, pi) ==
    LET Fk      == rt.m_Fk
        Nk      == rt.m_Nk
        rowSums == doRowSums(part, Fk, A, pi)
        u       == doUpdates(Fk, A, rhs, SOR, rowSums, pi)
        b       == boundFriction(rt.m_effMu, Nk, Fk, u.pi)
    IN  [pi |-> b.pi, upd |-> u.pi,
         rt |-> [rt EXCEPT !.m_frictionCond = b.cond],
         er2 |-> u.er2, enf |-> (b.cond = "Rolling"),
         rows |-> Fk, rowSums |-> rowSums]

\* The contacts the normal loop and the friction loop pass over (continue).
\* A plausible slip: a Known normal is solved like a participating one.
SkipNormalOnlyObserve(rt) == rt.m_type = "Observe"

SkipNormal(rt) == rt.m_type # "Participate"

\* A plausible slip: friction is solved only where the normal is.
SkipFrictionUnlessParticipating(rt) ==
    rt.m_type # "Participate" \/ ~hasFriction(rt)

\* A plausible slip: a contact without friction is not passed over.
SkipFrictionOnlyObserve(rt) == rt.m_type = "Observe"

SkipFriction(rt) == rt.m_type = "Observe" \/ ~hasFriction(rt)

\* ------------------------------------------------------------------ inputs
\* A problem layout: the participating set and the six partition arrays a
\* caller hands to solve.  Every layout satisfies the caller contract that
\* solve asserts (the partitions' multiplier count equals p).
Layout(part, uncond, cont, speed, bnd, cons, state) ==
    [participating |-> part, unconditional |-> uncond, uniContact |-> cont,
     uniSpeed |-> speed, bounded |-> bnd, consLtdFriction |-> cons,
     stateLtdFriction |-> state]

Half == Dec(1, 2)

Layouts ==
    { \* nothing participates; one contact is only observed
      Layout(<< >>, << >>,
             <<UniContactRT("Observe", 1, <<2, 3>>, Half, -1, 0)>>,
             << >>, << >>, << >>, << >>),
      \* one unconditional multiplier
      Layout(<<1>>, <<UncondRT(<<1>>)>>, << >>, << >>, << >>, << >>, << >>),
      \* an unconditional pair and a bounded scalar
      Layout(<<1, 2, 3>>, <<UncondRT(<<1, 2>>)>>, << >>, << >>,
             <<BoundedRT(3, -Half, Half)>>, << >>, << >>),
      \* a participating contact with friction and one without
      Layout(<<1, 2, 3, 4>>, << >>,
             <<UniContactRT("Participate", 1, <<3, 4>>, Half, -1, 0),
               UniContactRT("Participate", 2, << >>, 0, 1, 0)>>,
             << >>, << >>, << >>, << >>),
      \* a contact whose normal is known (expansion) and a bounded scalar
      Layout(<<3, 2, 4>>, << >>,
             <<UniContactRT("Known", 1, <<2, 3>>, Half, -1, 2 * ONE)>>,
             << >>, <<BoundedRT(4, 0, ONE)>>, << >>, << >>),
      \* an observed contact with friction beside a bounded scalar
      Layout(<<4>>, << >>,
             <<UniContactRT("Observe", 1, <<2, 3>>, Half, -1, 0)>>,
             << >>, <<BoundedRT(4, -ONE, ONE)>>, << >>, << >>),
      \* friction limited by an unconditional normal, state-limited friction
      \* and a unilateral speed constraint
      Layout(<<1, 2, 3, 4>>, <<UncondRT(<<1>>)>>, << >>,
             <<UniSpeedRT(4)>>, << >>,
             <<ConstraintLtdFrictionRT(<<2>>, <<1>>, Half)>>,
             <<StateLtdFrictionRT(<<3>>, ONE, Half)>>),
      \* a unilateral speed constraint alone
      Layout(<<1>>, << >>, << >>, <<UniSpeedRT(1)>>, << >>, << >>, << >>),
      \* a single participating contact without friction
      Layout(<<1>>, << >>,
             <<UniContactRT("Participate", 1, << >>, 0, -1, 0)>>,
             << >>, << >>, << >>, << >>) }

\* The layouts of the solves that follow the first one on the same solver:
\* those in which nothing, or more than three multipliers, participate.
AgainLayouts ==
    {L \in Layouts : Len(L.participating) = 0 \/ Len(L.participating) > 3}

\* Symmetric matrices: diagonal d (0 in row z), every off-diagonal entry c.
Sym(d, c, z) ==
    [i \in 1..M |-> [j \in 1..M |->
        IF i = j THEN (IF i = z THEN 0 ELSE d) ELSE c]]

AChoices ==
    {Sym(d, c, z) : d \in {ONE, 2 * ONE},
                    c \in {0, Half, Dec(3, 2)},
                    z \in {0, 1}}

\* Vectors alternating between two values.
Vec(a, b) == [i \in 1..M |-> IF i % 2 = 1 THEN a ELSE b]

\* The diagonal D passed to the first solve, and to the solves after it.
DChoices == {Vec(0, 0)}

AgainDChoices == {Vec(0, 0), Vec(ONE, Half)}

RhsChoices == {Vec(ONE, -ONE), Vec(Dec(1, 10), Dec(3, 10))}

PiChoices == {Vec(0, 0), Vec(Dec(1, 5), -Dec(1, 5)), Vec(-ONE, ONE)}

\* The inputs of the solves that follow the first one on the same solver.
AgainAChoices   == {Sym(ONE, Dec(3, 2), 0), Sym(2 * ONE, Half, 0)}
AgainRhsChoices == {Vec(ONE, -ONE)}
AgainPiChoices  == {Vec(0, 0)}

\* Initial relaxation factors a solver object may be configured with.
SORChoices == {ONE, Dec(12, 100)}

\* ----------------------------------------------------------- configuration
m_maxIters       == MaxIters
m_convergenceTol == Dec(1, 10)
SORFloor         == Dec(1, 10)
SORShrink        == Dec(8, 10)

\* The commented-out "too slow" branch is the only writer of increasing.
increasing == FALSE

\* ------------------------------------------------------------------- state
VARIABLES
    \* the solver object
    m_SOR, m_nSolves, m_nIters, m_nFail,
    \* the arguments of the call in progress
    phase, participating, A, D, rhs, pi,
    unconditional, uniContact, uniSpeed, bounded,
    consLtdFriction, stateLtdFriction,
    \* the locals of solve
    converged, normRMSall, normRMSenf, sor, prevNormRMSenf, its,
    decreasing, sum2all, sum2enf,
    \* control: where solve stands, the loop it is in and its index k
    pc, si, k, ret,
    \* history: the state on entry, the bodies run in this sweep (loop,
    \* index, rows updated), the rmsEnforced of every finished sweep, the
    \* last body run, pi and the status fields as the last finished sweep
    \* left them
    entry, sweepLog, rmsHist, last, sweepEnd,
    \* a second run of the same call whose pi differs at the
    \* non-participating indices
    shadow,
    \* what the previous call returned, kept while the call in progress
    \* repeats its arguments other than phase and D
    prior,
    \* the projection operator applied on its own, if one was: its
    \* arguments, pi before and after it, the status it reported, and what
    \* applying it once more to its own output gives
    proj

solverVars == <<m_SOR, m_nSolves, m_nIters, m_nFail>>
argVars    == <<phase, participating, A, D, rhs, pi, unconditional, uniContact,
                uniSpeed, bounded, consLtdFriction, stateLtdFriction>>
localVars  == <<converged, normRMSall, normRMSenf, sor, prevNormRMSenf, its,
                decreasing, sum2all, sum2enf>>
ctlVars    == <<pc, si, k, ret>>
histVars   == <<entry, sweepLog, rmsHist, last, sweepEnd, shadow, prior,
                proj>>
vars       == <<solverVars, argVars, localVars, ctlVars, histVars>>

p == Len(participating)

Counters == [nSolves |-> m_nSolves, nIters |-> m_nIters, nFail |-> m_nFail]

Statuses(cont, bnd, cons, state) ==
    [uniContact |-> cont, bounded |-> bnd, consLtdFriction |-> cons,
     stateLtdFriction |-> state]

NoLast == [kind |-> "none", k |-> 0, rows |-> << >>, rowSums |-> << >>,
           before |-> << >>, upd |-> << >>, after |-> << >>, er2 |-> 0,
           enf |-> FALSE, SOR |-> 0, all0 |-> 0, enf0 |-> 0]

NoShadow == [pi |-> << >>, uniContact |-> << >>, bounded |-> << >>,
             consLtdFriction |-> << >>, stateLtdFriction |-> << >>,
             sum2all |-> 0, sum2enf |-> 0]

NoProj == [op |-> "none", sign |-> 0, ix |-> 0, lb |-> 0, ub |-> 0,
           maxLen |-> 0, mu |-> 0, IV |-> << >>, IN_ |-> << >>,
           before |-> << >>, after |-> << >>, cond |-> "none",
           again |-> << >>, againCond |-> "none"]

NoPrior == [phase |-> -1, D |-> << >>, ret |-> FALSE, pi |-> << >>,
            statuses |-> Statuses(<< >>, << >>, << >>, << >>), sweeps |-> 0]

\* The offset by which the second run's pi differs where nothing participates.
Perturb == 7 * ONE

Init ==
    /\ m_SOR \in SORChoices
    /\ m_nSolves = [ph \in Phases |-> 0]
    /\ m_nIters  = [ph \in Phases |-> 0]
    /\ m_nFail   = [ph \in Phases |-> 0]
    /\ phase = 0
    /\ participating = << >>
    /\ A = Sym(0, 0, 0)
    /\ D = Vec(0, 0)
    /\ rhs = Vec(0, 0)
    /\ pi = Vec(0, 0)
    /\ unconditional = << >>
    /\ uniContact = << >>
    /\ uniSpeed = << >>
    /\ bounded = << >>
    /\ consLtdFriction = << >>
    /\ stateLtdFriction = << >>
    /\ converged = FALSE
    /\ normRMSall = Infinity
    /\ normRMSenf = Infinity
    /\ sor = m_SOR
    /\ prevNormRMSenf = NaN
    /\ its = 1
    /\ decreasing = FALSE
    /\ sum2all = 0
    /\ sum2enf = 0
    /\ pc = "idle"
    /\ si = 0
    /\ k = 0
    /\ ret = FALSE
    /\ entry = [pi |-> pi, counters |-> Counters,
                statuses |-> Statuses(<< >>, << >>, << >>, << >>)]
    /\ sweepLog = << >>
    /\ rmsHist = << >>
    /\ last = NoLast
    /\ sweepEnd = [pi |-> pi,
                   statuses |-> Statuses(<< >>, << >>, << >>, << >>)]
    /\ shadow = NoShadow
    /\ prior = NoPrior
    /\ proj = NoProj

\* ------------------------------------------------------------ sweep order
\* The order of the six for-loops inside one iteration.
StageOrderFrictionFirst ==
    <<"uncond", "friction", "normal", "bounded", "stateLtd", "consLtd">>

StageOrder ==
    <<"uncond", "normal", "friction", "bounded", "stateLtd", "consLtd">>

StageSize(st) ==
    CASE st = "uncond"   -> Len(unconditional)
      [] st = "normal"   -> Len(uniContact)
      [] st = "friction" -> Len(uniContact)
      [] st = "bounded"  -> Len(bounded)
      [] st = "stateLtd" -> Len(stateLtdFriction)
      [] st = "consLtd"  -> Len(consLtdFriction)

\* The first loop body at or after loop i; <<0, 0>> when the sweep is over.
RECURSIVE FirstFrom(_)
FirstFrom(i) ==
    IF i > Len(StageOrder) THEN <<0, 0>>
    ELSE IF StageSize(StageOrder[i]) > 0 THEN <<i, 1>>
    ELSE FirstFrom(i + 1)

\* The loop body that follows body kk of loop i.
After(i, kk) ==
    IF kk < StageSize(StageOrder[i]) THEN <<i, kk + 1>> ELSE FirstFrom(i + 1)

GoTo(pos) ==
    /\ si' = pos[1]
    /\ k' = pos[2]
    /\ pc' = IF pos[1] = 0 THEN "endsweep" ELSE "sweep"

At(st) == pc = "sweep" /\ StageOrder[si] = st

\* ------------------------------------------------------------ control tests
\* if (p == 0) return true;
EarlyReturnNever(pp) == FALSE

EarlyReturn(pp) == pp = 0

\* for (; its <= m_maxIters; ++its)
LoopCondStrict(i) == i < m_maxIters

\* A plausible slip: the cap on the sweeps depends on the phase.
LoopCondPerPhase(i) == i <= m_maxIters - phase

LoopCond(i) == i <= m_maxIters

\* if (normRMSenf < m_convergenceTol)
ConvergesAtTol(n) == n <= m_convergenceTol

Converges(n) == n < m_convergenceTol

\* rate > 1, for rate = normRMSenf/prevNormRMSenf: the quotient of two
\* values that are NaN, Infinity or finite and nonnegative.
\* A plausible slip: a residual that merely failed to drop counts as worse.
RateAtLeastOne(n, prev) ==
    IF n = NaN \/ prev = NaN THEN FALSE
    ELSE IF prev = Infinity THEN FALSE
    ELSE IF n = Infinity THEN TRUE
    ELSE IF prev = 0 THEN n > 0
    ELSE n >= prev

RateExceedsOne(n, prev) ==
    IF n = NaN \/ prev = NaN THEN FALSE
    ELSE IF prev = Infinity THEN FALSE
    ELSE IF n = Infinity THEN TRUE
    ELSE IF prev = 0 THEN n > 0
    ELSE n > prev

\* if (sor > .1) sor = std::max(.8*sor, .1);
ShrinkSORNoFloor(s) == IF s > SORFloor THEN RMul(SORShrink, s) ELSE s

ShrinkSOR(s) ==
    IF s > SORFloor THEN RMax(RMul(SORShrink, s), SORFloor) ELSE s

\* ----------------------------------------------------------------- actions
\* The pi of the second run: pi moved by Perturb outside the participating set.
ShadowPi(q, part) ==
    [i \in 1..M |-> IF i \in Range(part) THEN q[i] ELSE q[i] + Perturb]

\* What the call just finished returned, when the call now entered has
\* its arguments other than phase and D.
Finished(L, a, r, q) ==
    IF /\ pc = "done"
       /\ L.participating = participating
       /\ a = A
       /\ r = rhs
       /\ q = entry.pi
       /\ L.unconditional = unconditional
       /\ L.uniSpeed = uniSpeed
       /\ Statuses(L.uniContact, L.bounded, L.consLtdFriction,
                   L.stateLtdFriction) = entry.statuses
    THEN [phase |-> phase, D |-> D, ret |-> ret, pi |-> pi,
          statuses |-> Statuses(uniContact, bounded, consLtdFriction,
                                stateLtdFriction),
          sweeps |-> Len(rmsHist)]
    ELSE NoPrior

\* Entry of solve up to the loop: count the call, return at once when
\* nothing participates, else set up the locals.
Enter(ph, L, a, d, r, q) ==
    /\ phase' = ph
    /\ participating' = L.participating
    /\ A' = a
    /\ D' = d
    /\ prior' = Finished(L, a, r, q)
    /\ proj' = proj
    /\ rhs' = r
    /\ pi' = q
    /\ unconditional' = L.unconditional
    /\ uniContact' = L.uniContact
    /\ uniSpeed' = L.uniSpeed
    /\ bounded' = L.bounded
    /\ consLtdFriction' = L.consLtdFriction
    /\ stateLtdFriction' = L.stateLtdFriction
    /\ m_nSolves' = [m_nSolves EXCEPT ![ph] = @ + 1]
    /\ entry' = [pi |-> q, counters |-> Counters,
                 statuses |-> Statuses(L.uniContact, L.bounded,
                                       L.consLtdFriction,
                                       L.stateLtdFriction)]
    /\ shadow' = [pi |-> ShadowPi(q, L.participating),
                  uniContact |-> L.uniContact, bounded |-> L.bounded,
                  consLtdFriction |-> L.consLtdFriction,
                  stateLtdFriction |-> L.stateLtdFriction,
                  sum2all |-> 0, sum2enf |-> 0]
    /\ sweepEnd' = [pi |-> q,
                    statuses |-> Statuses(L.uniContact, L.bounded,
                                          L.consLtdFriction,
                                          L.stateLtdFriction)]
    /\ IF EarlyReturn(Len(L.participating))
       THEN pc' = "done" /\ ret' = TRUE
       ELSE pc' = "loop" /\ ret' = FALSE
    /\ converged' = FALSE
    /\ normRMSall' = Infinity
    /\ normRMSenf' = Infinity
    /\ sor' = m_SOR
    /\ prevNormRMSenf' = NaN
    /\ its' = 1
    /\ decreasing' = FALSE
    /\ sum2all' = 0
    /\ sum2enf' = 0
    /\ si' = 0
    /\ k' = 0
    /\ sweepLog' = << >>
    /\ rmsHist' = << >>
    /\ last' = NoLast
    /\ UNCHANGED <<m_SOR, m_nIters, m_nFail>>

\* The number of solve calls made so far.
Calls == SumSeq([i \in 1..Cardinality(Phases) |-> m_nSolves[i - 1]])

\* The first solve on a newly constructed solver.
Call ==
    /\ pc = "idle"
    /\ \E ph \in Phases, L \in Layouts, a \in AChoices, d \in DChoices,
          r \in RhsChoices, q \in PiChoices : Enter(ph, L, a, d, r, q)

\* A further solve on the same solver, whose counters carry over.
CallAgain ==
    /\ pc = "done"
    /\ Calls < MaxCalls
    /\ \E ph \in Phases, L \in AgainLayouts, a \in AgainAChoices,
          d \in AgainDChoices, r \in AgainRhsChoices, q \in AgainPiChoices :
             Enter(ph, L, a, d, r, q)

\* Top of the loop body: the loop test holds, the iteration is counted and
\* the accumulators are cleared.
BeginSweep ==
    /\ pc = "loop"
    /\ LoopCond(its)
    /\ m_nIters' = [m_nIters EXCEPT ![phase] = @ + 1]
    /\ sum2all' = 0
    /\ sum2enf' = 0
    /\ prevNormRMSenf' = normRMSenf
    /\ GoTo(FirstFrom(1))
    /\ sweepLog' = << >>
    /\ last' = NoLast
    /\ shadow' = [shadow EXCEPT !.sum2all = 0, !.sum2enf = 0]
    /\ UNCHANGED <<m_SOR, m_nSolves, m_nFail, argVars, converged, normRMSall,
                   normRMSenf, sor, its, decreasing, ret, entry, rmsHist,
                   sweepEnd, prior, proj>>

\* What every loop body does with the result r of its computation.
Account(kind, r) ==
    /\ pi' = r.pi
    /\ sum2all' = sum2all + r.er2
    /\ sum2enf' = IF r.enf THEN sum2enf + r.er2 ELSE sum2enf
    /\ sweepLog' = Append(sweepLog, <<kind, k, r.rows>>)
    /\ last' = [kind |-> kind, k |-> k, rows |-> r.rows,
                rowSums |-> r.rowSums, before |-> pi, upd |-> r.upd,
                after |-> r.pi, er2 |-> r.er2, enf |-> r.enf, SOR |-> sor,
                all0 |-> sum2all, enf0 |-> sum2enf]
    /\ GoTo(After(si, k))

\* The same bookkeeping for the second run.
ShadowAccount(sh, rs) ==
    [sh EXCEPT !.pi = rs.pi,
               !.sum2all = @ + rs.er2,
               !.sum2enf = IF rs.enf THEN @ + rs.er2 ELSE @]

\* A pass of a loop body that only continues.
Skip ==
    /\ GoTo(After(si, k))
    /\ last' = [NoLast EXCEPT !.kind = "skip", !.k = k]
    /\ UNCHANGED <<pi, sum2all, sum2enf, sweepLog, shadow>>

loopFrame == <<m_SOR, m_nSolves, m_nIters, m_nFail, phase, participating, A,
               rhs, converged, normRMSall, normRMSenf, sor, prevNormRMSenf,
               its, decreasing, ret, entry, rmsHist, sweepEnd, uniSpeed, D,
               prior, proj>>

\* UNCONDITIONAL: these are always on.
UnconditionalStep ==
    /\ At("uncond")
    /\ LET r  == UncondBody(unconditional[k], participating, A, rhs, sor, pi)
           rs == UncondBody(unconditional[k], participating, A, rhs, sor,
                            shadow.pi)
       IN  /\ Account("uncond", r)
           /\ shadow' = ShadowAccount(shadow, rs)
    /\ UNCHANGED <<loopFrame, unconditional, uniContact, bounded,
                   consLtdFriction, stateLtdFriction>>

\* UNILATERAL CONTACT NORMALS.
NormalStep ==
    /\ At("normal")
    /\ IF SkipNormal(uniContact[k])
       THEN Skip /\ UNCHANGED uniContact
       ELSE LET r  == NormalBody(uniContact[k], participating, A, rhs, sor,
                                 pi)
                rs == NormalBody(shadow.uniContact[k], participating, A, rhs,
                                 sor, shadow.pi)
            IN  /\ Account("normal", r)
                /\ uniContact' = [uniContact EXCEPT ![k] = r.rt]
                /\ shadow' = [ShadowAccount(shadow, rs)
                                 EXCEPT !.uniContact[k] = rs.rt]
    /\ UNCHANGED <<loopFrame, unconditional, bounded, consLtdFriction,
                   stateLtdFriction>>

\* UNILATERAL CONTACT FRICTION.
FrictionStep ==
    /\ At("friction")
    /\ IF SkipFriction(uniContact[k])
       THEN Skip /\ UNCHANGED uniContact
       ELSE LET r  == FrictionBody(uniContact[k], participating, A, rhs, sor,
                                   pi)
                rs == FrictionBody(shadow.uniContact[k], participating, A,
                                   rhs, sor, shadow.pi)
            IN  /\ Account("friction", r)
                /\ uniContact' = [uniContact EXCEPT ![k] = r.rt]
                /\ shadow' = [ShadowAccount(shadow, rs)
                                 EXCEPT !.uniContact[k] = rs.rt]
    /\ UNCHANGED <<loopFrame, unconditional, bounded, consLtdFriction,
                   stateLtdFriction>>

\* BOUNDED: conditional scalar constraints with constant bounds.
BoundedStep ==
    /\ At("bounded")
    /\ LET r  == BoundedBody(bounded[k], participating, A, rhs, sor, pi)
           rs == BoundedBody(shadow.bounded[k], participating, A, rhs, sor,
                             shadow.pi)
       IN  /\ Account("bounded", r)
           /\ bounded' = [bounded EXCEPT ![k] = r.rt]
           /\ shadow' = [ShadowAccount(shadow, rs)
                            EXCEPT !.bounded[k] = rs.rt]
    /\ UNCHANGED <<loopFrame, unconditional, uniContact, consLtdFriction,
                   stateLtdFriction>>

\* STATE LIMITED FRICTION.
StateLtdStep ==
    /\ At("stateLtd")
    /\ LET r  == StateLtdBody(stateLtdFriction[k], participating, A, rhs,
                              sor, pi)
           rs == StateLtdBody(shadow.stateLtdFriction[k], participating, A,
                              rhs, sor, shadow.pi)
       IN  /\ Account("stateLtd", r)
           /\ stateLtdFriction' = [stateLtdFriction EXCEPT ![k] = r.rt]
           /\ shadow' = [ShadowAccount(shadow, rs)
                            EXCEPT !.stateLtdFriction[k] = rs.rt]
    /\ UNCHANGED <<loopFrame, unconditional, uniContact, bounded,
                   consLtdFriction>>

\* CONSTRAINT LIMITED FRICTION.
ConsLtdStep ==
    /\ At("consLtd")
    /\ LET r  == ConsLtdBody(consLtdFriction[k], participating, A, rhs, sor,
                             pi)
           rs == ConsLtdBody(shadow.consLtdFriction[k], participating, A,
                             rhs, sor, shadow.pi)
       IN  /\ Account("consLtd", r)
           /\ consLtdFriction' = [consLtdFriction EXCEPT ![k] = r.rt]
           /\ shadow' = [ShadowAccount(shadow, rs)
                            EXCEPT !.consLtdFriction[k] = rs.rt]
    /\ UNCHANGED <<loopFrame, unconditional, uniContact, bounded,
                   stateLtdFriction>>

\* End of the loop body: the two norms, the relaxation factor, the
\* convergence test and the loop increment.
EndSweep ==
    /\ pc = "endsweep"
    /\ LET all == RSqrt(RoundDiv(sum2all, p))
           enf == RSqrt(RoundDiv(sum2enf, p))
           worse == ~increasing /\ RateExceedsOne(enf, prevNormRMSenf)
       IN  /\ normRMSall' = all
           /\ normRMSenf' = enf
           /\ sor' = IF worse THEN ShrinkSOR(sor) ELSE sor
           /\ decreasing' = IF worse THEN TRUE ELSE decreasing
           /\ rmsHist' = Append(rmsHist, enf)
           /\ IF Converges(enf)
              THEN converged' = TRUE /\ its' = its /\ pc' = "exit"
              ELSE converged' = converged /\ its' = its + 1 /\ pc' = "loop"
    /\ sweepEnd' = [pi |-> pi,
                    statuses |-> Statuses(uniContact, bounded,
                                          consLtdFriction, stateLtdFriction)]
    /\ UNCHANGED <<solverVars, argVars, prevNormRMSenf, sum2all, sum2enf,
                   si, k, ret, entry, sweepLog, last, shadow, prior, proj>>

\* A plausible slip: the failure is counted whatever converged says.
ExitCountsAlways ==
    /\ \/ pc = "exit"
       \/ pc = "loop" /\ ~LoopCond(its)
    /\ m_nFail' = [m_nFail EXCEPT ![phase] = @ + 1]
    /\ ret' = converged
    /\ pc' = "done"
    /\ UNCHANGED <<m_SOR, m_nSolves, m_nIters, argVars, localVars, si, k,
                   histVars>>

\* After the loop: count a failure, return converged.
Exit ==
    /\ \/ pc = "exit"
       \/ pc = "loop" /\ ~LoopCond(its)
    /\ m_nFail' = IF converged THEN m_nFail
                               ELSE [m_nFail EXCEPT ![phase] = @ + 1]
    /\ ret' = converged
    /\ pc' = "done"
    /\ UNCHANGED <<m_SOR, m_nSolves, m_nIters, argVars, localVars, si, k,
                   histVars>>

Next ==
    \/ Call
    \/ CallAgain
    \/ BeginSweep
    \/ UnconditionalStep
    \/ NormalStep
    \/ FrictionStep
    \/ BoundedStep
    \/ StateLtdStep
    \/ ConsLtdStep
    \/ EndSweep
    \/ Exit

Spec == Init /\ [][Next]_vars

\* ------------------------------------------- the projections on their own
\* The four static projection functions applied once to a multiplier
\* vector, outside solve, and once more to what they returned.
ProjVals == {-4 * ONE, -Dec(3, 2), 0, 3 * ONE}

ProjPis == [1..M -> ProjVals]

ProjSigns == {1, -1}

\* lb <= ub, as the callers supply them.
ProjBounds == {<<-Half, Half>>, <<0, 3 * ONE>>, <<-Dec(3, 2), -Dec(3, 2)>>}

ProjCaps == {0, Half, ONE, 5 * ONE}

ProjMus == {0, Half, ONE}

ProjIVs == {<< >>, <<1>>, <<1, 2>>, <<2, 3, 4>>}

\* Pairs <<IN, IF>> of disjoint normal and friction index sets.
ProjINFs == {<<<<1>>, <<2>>>>, <<<<1>>, <<2, 3>>>>, <<<<1, 4>>, <<2, 3>>>>,
             <<<< >>, <<2>>>>, <<<<1>>, << >>>>}

ProjInit ==
    /\ m_SOR = ONE
    /\ m_nSolves = [ph \in Phases |-> 0]
    /\ m_nIters  = [ph \in Phases |-> 0]
    /\ m_nFail   = [ph \in Phases |-> 0]
    /\ phase = 0
    /\ participating = << >>
    /\ A = Sym(0, 0, 0)
    /\ D = Vec(0, 0)
    /\ rhs = Vec(0, 0)
    /\ pi \in ProjPis
    /\ unconditional = << >> /\ uniContact = << >> /\ uniSpeed = << >>
    /\ bounded = << >> /\ consLtdFriction = << >> /\ stateLtdFriction = << >>
    /\ converged = FALSE
    /\ normRMSall = Infinity /\ normRMSenf = Infinity
    /\ sor = m_SOR
    /\ prevNormRMSenf = NaN
    /\ its = 1
    /\ decreasing = FALSE
    /\ sum2all = 0 /\ sum2enf = 0
    /\ pc = "idle" /\ si = 0 /\ k = 0 /\ ret = FALSE
    /\ entry = [pi |-> pi, counters |-> Counters,
                statuses |-> Statuses(<< >>, << >>, << >>, << >>)]
    /\ sweepLog = << >> /\ rmsHist = << >> /\ last = NoLast
    /\ sweepEnd = [pi |-> pi,
                   statuses |-> Statuses(<< >>, << >>, << >>, << >>)]
    /\ shadow = NoShadow
    /\ prior = NoPrior
    /\ proj = NoProj

projFrame == <<solverVars, phase, participating, A, D, rhs, unconditional,
               uniContact, uniSpeed, bounded, consLtdFriction,
               stateLtdFriction, localVars, ctlVars, entry, sweepLog,
               rmsHist, last, sweepEnd, shadow, prior>>

\* pi[i] replaced by what a scalar projection returned for it.
Put(q, i, x) == [q EXCEPT ![i] = x]

ApplyBoundUnilateral ==
    /\ proj = NoProj
    /\ \E sign \in ProjSigns, i \in 1..M :
          LET r  == boundUnilateral(sign, pi[i])
              r2 == boundUnilateral(sign, r.pi)
          IN  /\ pi' = Put(pi, i, r.pi)
              /\ proj' = [NoProj EXCEPT !.op = "boundUnilateral",
                             !.sign = sign, !.ix = i, !.before = pi,
                             !.after = Put(pi, i, r.pi), !.cond = r.cond,
                             !.again = Put(Put(pi, i, r.pi), i, r2.pi),
                             !.againCond = r2.cond]
    /\ UNCHANGED projFrame

ApplyBoundScalar ==
    /\ proj = NoProj
    /\ \E b \in ProjBounds, i \in 1..M :
          LET r  == boundScalar(b[1], pi[i], b[2])
              r2 == boundScalar(b[1], r.pi, b[2])
          IN  /\ pi' = Put(pi, i, r.pi)
              /\ proj' = [NoProj EXCEPT !.op = "boundScalar",
                             !.lb = b[1], !.ub = b[2], !.ix = i,
                             !.before = pi, !.after = Put(pi, i, r.pi),
                             !.cond = r.cond,
                             !.again = Put(Put(pi, i, r.pi), i, r2.pi),
                             !.againCond = r2.cond]
    /\ UNCHANGED projFrame

ApplyBoundVector ==
    /\ proj = NoProj
    /\ \E maxLen \in ProjCaps, IV \in ProjIVs :
          LET r  == boundVector(maxLen, IV, pi)
              r2 == boundVector(maxLen, IV, r.pi)
          IN  /\ pi' = r.pi
              /\ proj' = [NoProj EXCEPT !.op = "boundVector",
                             !.maxLen = maxLen, !.IV = IV, !.before = pi,
                             !.after = r.pi, !.cond = r.cond,
                             !.again = r2.pi, !.againCond = r2.cond]
    /\ UNCHANGED projFrame

ApplyBoundFriction ==
    /\ proj = NoProj
    /\ \E mu \in ProjMus, nf \in ProjINFs :
          LET r  == boundFriction(mu, nf[1], nf[2], pi)
              r2 == boundFriction(mu, nf[1], nf[2], r.pi)
          IN  /\ pi' = r.pi
              /\ proj' = [NoProj EXCEPT !.op = "boundFriction",
                             !.mu = mu, !.IN_ = nf[1], !.IV = nf[2],
                             !.before = pi, !.after = r.pi, !.cond = r.cond,
                             !.again = r2.pi, !.againCond = r2.cond]
    /\ UNCHANGED projFrame

ProjNext ==
    \/ ApplyBoundUnilateral
    \/ ApplyBoundScalar
    \/ ApplyBoundVector
    \/ ApplyBoundFriction

ProjSpec == ProjInit /\ [][ProjNext]_vars

\* ------------------------------------------------------------------ claims
InSolve == pc # "idle"

CurStatuses ==
    Statuses(uniContact, bounded, consLtdFriction, stateLtdFriction)

\* The sweeps of the call so far that ended below the tolerance.
Met == {i \in 1..Len(rmsHist) : rmsHist[i] < m_convergenceTol}

\* The sweeps the call has counted for its phase.
SweepsCounted == m_nIters[phase] - entry.counters.nIters[phase]

\* The rows updated so far in the current sweep.
Touched == UNION {Range(sweepLog[i][3]) : i \in 1..Len(sweepLog)}

\* C1: a solve with a non-empty participating set returns true exactly when
\* some sweep numbered at most maxIters ended with rmsEnforced strictly
\* below the tolerance; that sweep is the last one (pi and the status fields
\* are as it left them), and a sweep ending exactly at the tolerance does
\* not count.
C1_ConvergedIffBelowTol ==
    (pc = "done" /\ p > 0) =>
        /\ ret = (Met # {})
        /\ Len(rmsHist) <= m_maxIters
        /\ SweepsCounted = Len(rmsHist)
        /\ \A i \in Met : i = Len(rmsHist)
        /\ pi = sweepEnd.pi
        /\ CurStatuses = sweepEnd.statuses

\* A solve whose first sweep ended exactly at the tolerance went on and
\* converged on a later sweep.
C1_Witness ==
    /\ pc = "done" /\ p > 0 /\ ret
    /\ Len(rmsHist) >= 2
    /\ rmsHist[1] = m_convergenceTol

\* C2: a solve in which no sweep met the tolerance performs exactly
\* maxIters sweeps, returns false, adds one to the failure counter of its
\* phase only and leaves pi as the last sweep left it; a solve that returns
\* true leaves every failure counter unchanged, also when it converges on
\* sweep number maxIters; no solve ever performs more than maxIters sweeps.
C2_FailureAtCap ==
    /\ InSolve => SweepsCounted <= m_maxIters
    /\ (pc = "done" /\ p > 0 /\ Met = {}) =>
          /\ Len(rmsHist) = m_maxIters
          /\ SweepsCounted = m_maxIters
          /\ ret = FALSE
          /\ m_nFail = [entry.counters.nFail EXCEPT ![phase] = @ + 1]
          /\ pi = sweepEnd.pi
    /\ (pc = "done" /\ ret) => m_nFail = entry.counters.nFail

\* A failed solve on a solver that had already counted a failure.
C2_Witness ==
    /\ pc = "done" /\ ~ret /\ p > 0
    /\ Len(rmsHist) = m_maxIters
    /\ entry.counters.nFail[phase] = 1
    /\ m_nFail[phase] = 2
    /\ pi # entry.pi

\* C3: with an empty participating set solve returns true at once: the
\* iteration and failure counters, pi and every status field are as on
\* entry.
C3_EmptyParticipating ==
    (InSolve /\ p = 0) =>
        /\ pc = "done"
        /\ ret = TRUE
        /\ m_nIters = entry.counters.nIters
        /\ m_nFail = entry.counters.nFail
        /\ pi = entry.pi
        /\ CurStatuses = entry.statuses

\* An empty solve, with a contact record present, on a solver whose
\* counters are already nonzero.
C3_Witness ==
    /\ pc = "done" /\ p = 0 /\ ret
    /\ Len(uniContact) > 0
    /\ m_nIters[phase] > 0
    /\ m_nSolves[phase] = 2

IsFrictionKind(kind) == kind \in {"friction", "stateLtd", "consLtd"}

FrictionRan(c) ==
    \E i \in 1..Len(sweepLog) :
        sweepLog[i][1] = "friction" /\ sweepLog[i][2] = c

\* C5 as stated: every sweep updates and projects the friction multipliers
\* of every contact that has friction, whatever its normal mode.
C5_AllModes ==
    pc = "endsweep" =>
        \A c \in 1..Len(uniContact) :
            hasFriction(uniContact[c]) =>
                /\ FrictionRan(c)
                /\ uniContact[c].m_frictionCond \in {"Rolling", "Sliding"}

\* C5 amended: every sweep updates and projects the friction multipliers of
\* every contact that has friction and is not excluded from the solve
\* (Known or Participate); the friction of an Observe contact is passed
\* over and its friction status keeps its entry value.
C5_AllButObserve ==
    pc = "endsweep" =>
        \A c \in 1..Len(uniContact) :
            LET rt == uniContact[c]
            IN  /\ (hasFriction(rt) /\ rt.m_type # "Observe") =>
                      /\ FrictionRan(c)
                      /\ rt.m_frictionCond \in {"Rolling", "Sliding"}
                      /\ Range(rt.m_Fk) \subseteq Touched
                /\ rt.m_type = "Observe" =>
                      /\ ~FrictionRan(c)
                      /\ rt.m_frictionCond =
                            entry.statuses.uniContact[c].m_frictionCond

\* A finished sweep that projected the friction of a contact whose normal
\* is Known.
C5_Witness ==
    /\ pc = "endsweep"
    /\ \E c \in 1..Len(uniContact) :
          /\ uniContact[c].m_type = "Known"
          /\ FrictionRan(c)
          /\ uniContact[c].m_frictionCond = "Sliding"

\* C6: every sweep updates (and then projects) the multiplier of every
\* unilateral-speed constraint, so that every multiplier counted in the
\* participating set is processed by each sweep.
C6_SpeedProcessed ==
    pc = "endsweep" =>
        /\ \A s \in 1..Len(uniSpeed) : uniSpeed[s].m_ix \in Touched
        /\ Range(participating) \subseteq Touched

\* C7: the two residual accumulators satisfy sum_all >= sum_enforced >= 0
\* throughout every iteration of every solve.
C7_SumsOrdered ==
    InSolve => (sum2all >= sum2enf /\ sum2enf >= 0)

\* A finished sweep with a nonzero enforced residual and a residual that is
\* not enforced.
C7_Witness ==
    /\ pc = "endsweep"
    /\ sum2all > sum2enf
    /\ sum2enf > 0

\* C8: during a solve the relaxation factor is never below its floor, is
\* never raised, and is lowered only by a step that leaves the solve in
\* relax-downward mode.
C8_RelaxationShrinkOnly ==
    /\ [](InSolve => sor >= SORFloor)
    /\ [][(pc \notin {"idle", "done"}) =>
            /\ sor' <= sor
            /\ (sor' < sor => decreasing')]_vars

\* A solve whose relaxation factor was shrunk down to the floor.
C8_Witness ==
    /\ InSolve
    /\ decreasing
    /\ sor = SORFloor
    /\ sor < m_SOR

\* The residual of the i-th row of the last body run.
LastEr(i) == rhs[last.rows[i]] - last.rowSums[i]

\* C9: the update moves pi[row] by sor*residual/A[row,row] only if
\* A[row,row] > 0 and leaves it alone otherwise, changes no other element,
\* and reports the squared residual in both cases, which the driver adds to
\* sum_all (and to sum_enforced when the constraint is enforced); the
\* single-row and the multi-row updates do the same on each row.
C9_UpdateRule ==
    (last.kind \notin {"none", "skip"}) =>
        /\ \A i \in 1..Len(last.rows) :
              LET row == last.rows[i]
              IN  last.upd[row] =
                     IF A[row][row] > 0
                     THEN last.before[row]
                          + RDiv(RMul(last.SOR, LastEr(i)), A[row][row])
                     ELSE last.before[row]
        /\ \A j \in 1..M :
              j \notin Range(last.rows) => last.upd[j] = last.before[j]
        /\ last.er2 = SumSeq([i \in 1..Len(last.rows) |-> square(LastEr(i))])
        /\ sum2all = last.all0 + last.er2
        /\ sum2enf = last.enf0 + (IF last.enf THEN last.er2 ELSE 0)

\* A single-row update skipped for a non-positive diagonal whose nonzero
\* residual was still added to both accumulators.
C9_Witness ==
    /\ last.kind = "normal"
    /\ A[last.rows[1]][last.rows[1]] <= 0
    /\ LastEr(1) # 0
    /\ last.upd = last.before
    /\ sum2all > last.all0
    /\ sum2enf > last.enf0

\* C10: the row residuals read pi at the participating columns only: a
\* second run of the same call whose pi differs at the non-participating
\* indices keeps the same multipliers at the participating indices, the
\* same status fields and the same residual sums (hence the same norms and
\* the same return value).
C10_NonParticipatingIgnored ==
    (InSolve /\ p > 0) =>
        /\ (last.kind \notin {"none", "skip"}) =>
              \A i \in 1..Len(last.rows) :
                 last.rowSums[i] =
                    SumSeq([c \in 1..p |->
                              RMul(A[last.rows[i]][participating[c]],
                                   last.before[participating[c]])])
        /\ \A i \in Range(participating) : shadow.pi[i] = pi[i]
        /\ shadow.uniContact = uniContact
        /\ shadow.bounded = bounded
        /\ shadow.consLtdFriction = consLtdFriction
        /\ shadow.stateLtdFriction = stateLtdFriction
        /\ shadow.sum2all = sum2all
        /\ shadow.sum2enf = sum2enf

\* A finished solve that moved a participating multiplier whose row is
\* coupled to a non-participating column at which the two runs differ.
C10_Witness ==
    /\ pc = "done" /\ p > 0
    /\ \E i \in (1..M) \ Range(participating) :
          /\ shadow.pi[i] # pi[i]
          /\ pi[i] # 0
          /\ \E j \in Range(participating) :
                A[j][i] # 0 /\ pi[j] # entry.pi[j]

\* The parameters of the constraint records, their status fields blanked.
ContactParams(s) ==
    [i \in 1..Len(s) |->
        [s[i] EXCEPT !.m_contactCond = UniNA, !.m_frictionCond = FricNA]]

BoundedParams(s) == [i \in 1..Len(s) |-> [s[i] EXCEPT !.m_boundedCond = BndNA]]

FrictionParams(s) ==
    [i \in 1..Len(s) |-> [s[i] EXCEPT !.m_frictionCond = FricNA]]

\* C11: a step of solve never changes pi at a non-participating index, nor
\* A, rhs, the participating set or any parameter of a constraint record:
\* it changes only pi at participating indices, status fields and the
\* counters (every partition solved here has its indices inside the
\* participating set).
C11_Frame ==
    [][(pc \notin {"idle", "done"}) =>
          /\ \A i \in (1..M) \ Range(participating) : pi'[i] = pi[i]
          /\ A' = A
          /\ rhs' = rhs
          /\ participating' = participating
          /\ phase' = phase
          /\ m_SOR' = m_SOR
          /\ unconditional' = unconditional
          /\ uniSpeed' = uniSpeed
          /\ ContactParams(uniContact') = ContactParams(uniContact)
          /\ BoundedParams(bounded') = BoundedParams(bounded)
          /\ FrictionParams(consLtdFriction') = FrictionParams(consLtdFriction)
          /\ FrictionParams(stateLtdFriction')
                = FrictionParams(stateLtdFriction)]_vars

\* A finished solve over a contact whose Known normal does not participate:
\* its row has a positive diagonal and a nonzero multiplier that was left
\* alone, while the participating multipliers moved.
C11_Witness ==
    /\ pc = "done" /\ p > 0
    /\ \E c \in 1..Len(uniContact) :
          LET Nk == uniContact[c].m_Nk
          IN  /\ uniContact[c].m_type = "Known"
              /\ Nk \notin Range(participating)
              /\ A[Nk][Nk] > 0
              /\ pi[Nk] # 0
              /\ pi[Nk] = entry.pi[Nk]
    /\ \A j \in Range(participating) : pi[j] # entry.pi[j]

\* C12: the per-phase counters only grow: a finished call has added exactly
\* one to the solve counter of its phase (also when nothing participates),
\* the number of sweeps it performed to the iteration counter of its phase,
\* one to the failure counter of its phase exactly when it returns false,
\* and nothing to the counters of any other phase; no step of any call
\* lowers a counter.
C12_CountersMonotone ==
    /\ [](pc = "done" =>
            /\ m_nSolves = [entry.counters.nSolves EXCEPT ![phase] = @ + 1]
            /\ m_nIters = [entry.counters.nIters
                              EXCEPT ![phase] = @ + Len(rmsHist)]
            /\ m_nFail = [entry.counters.nFail
                              EXCEPT ![phase] = @ + (IF ret THEN 0 ELSE 1)])
    /\ [][\A ph \in Phases :
            /\ m_nSolves'[ph] >= m_nSolves[ph]
            /\ m_nIters'[ph] >= m_nIters[ph]
            /\ m_nFail'[ph] >= m_nFail[ph]]_vars

\* A converged second solve in one phase after a failed solve in the other:
\* the other phase's counters stand, this phase has no failure.
C12_Witness ==
    /\ pc = "done" /\ ret /\ p > 0
    /\ m_nSolves[phase] = 1
    /\ m_nFail[phase] = 0
    /\ m_nIters[phase] = Len(rmsHist)
    /\ \E ph \in Phases \ {phase} :
          /\ m_nSolves[ph] = 1
          /\ m_nFail[ph] = 1
          /\ m_nIters[ph] = m_maxIters

\* C13: neither phase nor D affects the computation. A call that repeats
\* the previous call's participating, A, rhs, pi and constraint records,
\* whatever its phase and its D, returns the same value after the same
\* number of sweeps and leaves the same pi and the same status fields.
C13_PhaseAndDIgnored ==
    (pc = "done" /\ prior # NoPrior) =>
        /\ ret = prior.ret
        /\ pi = prior.pi
        /\ CurStatuses = prior.statuses
        /\ Len(rmsHist) = prior.sweeps

\* A call in the other phase with another D has repeated a call that swept
\* to the cap and moved pi.
C13_Witness ==
    /\ pc = "done" /\ prior # NoPrior
    /\ phase # prior.phase
    /\ D # prior.D
    /\ p > 0
    /\ pi # entry.pi
    /\ Len(rmsHist) = m_maxIters
    /\ \E c \in 1..Len(uniContact) :
          uniContact[c].m_contactCond # UniNA

\* The system is a single participating unilateral contact, and the normal
\* loop of the first sweep has just run its body on it.
SingleContactFirstNormal ==
    /\ InSolve
    /\ Len(uniContact) = 1
    /\ Len(unconditional) = 0 /\ Len(uniSpeed) = 0 /\ Len(bounded) = 0
    /\ Len(consLtdFriction) = 0 /\ Len(stateLtdFriction) = 0
    /\ uniContact[1].m_type = "Participate"
    /\ Len(rmsHist) = 0
    /\ last.kind = "normal"

\* The multiplier of that contact's normal violated the sign on entry.
ViolatedOnEntry ==
    uniContact[1].m_sign * entry.pi[uniContact[1].m_Nk] > 0

\* C14 as stated: a single participating contact whose multiplier violates
\* the sign convention on entry has multiplier 0 and status UniOff after
\* the first sweep's projection.
C14_EntryViolationClamped ==
    (SingleContactFirstNormal /\ ViolatedOnEntry) =>
        /\ pi[uniContact[1].m_Nk] = 0
        /\ uniContact[1].m_contactCond = "UniOff"

\* C14 amended: the projection follows the first sweep's update, so such a
\* contact has multiplier 0 and status UniOff after the first projection
\* exactly when the updated multiplier still violates the sign convention;
\* when the update has removed the violation the updated multiplier is
\* kept and the status is UniActive.
C14_UpdatedViolationClamped ==
    (SingleContactFirstNormal /\ ViolatedOnEntry) =>
        LET Nk == uniContact[1].m_Nk
        IN  IF uniContact[1].m_sign * last.upd[Nk] > 0
            THEN /\ pi[Nk] = 0
                 /\ uniContact[1].m_contactCond = "UniOff"
            ELSE /\ pi[Nk] = last.upd[Nk]
                 /\ uniContact[1].m_contactCond = "UniActive"

\* A violation on entry that the first update moved but did not remove,
\* and that the projection clamped.
C14_Witness ==
    /\ SingleContactFirstNormal /\ ViolatedOnEntry
    /\ A[uniContact[1].m_Nk][uniContact[1].m_Nk] > 0
    /\ last.upd[uniContact[1].m_Nk] # entry.pi[uniContact[1].m_Nk]
    /\ pi[uniContact[1].m_Nk] = 0
    /\ uniContact[1].m_contactCond = "UniOff"

\* The projection applied on its own was the operator named op.
Applied(op) == proj.op = op /\ pi = proj.after

\* x equals y up to the rounding of the arithmetic: within a twentieth of
\* y and two units of the last place kept.
WithinRounding(x, y) == Abs(x - y) * 20 <= Abs(y) + 40

\* The indices an applied projection was given to write.
Given == IF proj.op \in {"boundUnilateral", "boundScalar"}
         THEN {proj.ix} ELSE Range(proj.IV)

\* C15 as stated: applying any of the four projections to its own output
\* leaves every multiplier as the first application left it, and an
\* application changes nothing outside the multipliers it was given.
C15_Idempotent ==
    (proj.op # "none") =>
        /\ proj.again = proj.after
        /\ \A i \in (1..M) \ Given : proj.after[i] = proj.before[i]

\* C15 amended: the sign-bound and the two-sided bound are exactly
\* idempotent, and so are the two caps whenever the first application
\* reported rolling; after a cap has scaled, the rounding of the scale can
\* leave the computed norm above the cap, and a second application then
\* scales again, moving each multiplier by no more than rounding error.
\* No application changes anything outside the multipliers it was given.
C15_IdempotentUpToRounding ==
    (proj.op # "none") =>
        /\ proj.op \in {"boundUnilateral", "boundScalar"} =>
              /\ proj.again = proj.after
              /\ proj.againCond \in {"UniActive", "Engaged"}
        /\ proj.cond = "Rolling" =>
              /\ proj.again = proj.after
              /\ proj.againCond = "Rolling"
        /\ \A i \in 1..M : WithinRounding(proj.again[i], proj.after[i])
        /\ \A i \in (1..M) \ Given :
              /\ proj.after[i] = proj.before[i]
              /\ proj.again[i] = proj.after[i]

\* A cap scaled the vector, and applied to its own output scaled it again.
C15_Witness ==
    /\ Applied("boundVector")
    /\ proj.cond = "Sliding"
    /\ proj.maxLen > 0
    /\ proj.againCond = "Sliding"
    /\ proj.again # proj.after

\* C16: the sign-bound sets a multiplier with sign*pi > 0 to 0 and reports
\* UniOff; any other multiplier, 0 included, it leaves unchanged and
\* reports UniActive; afterwards sign*pi <= 0.
C16_SignBound ==
    Applied("boundUnilateral") =>
        LET x == proj.before[proj.ix]
            y == proj.after[proj.ix]
        IN  /\ proj.sign * x > 0 => (y = 0 /\ proj.cond = "UniOff")
            /\ proj.sign * x <= 0 => (y = x /\ proj.cond = "UniActive")
            /\ proj.sign * y <= 0

\* A violating multiplier was released.
C16_Witness ==
    /\ Applied("boundUnilateral")
    /\ proj.sign * proj.before[proj.ix] > 0
    /\ pi[proj.ix] = 0
    /\ proj.cond = "UniOff"

\* C17: the two-sided bound sets a multiplier above ub to ub and reports
\* SlipHigh, else one below lb to lb and reports SlipLow, else leaves it
\* unchanged and reports Engaged; afterwards lb <= pi <= ub, and a
\* multiplier exactly at a bound is reported Engaged.
C17_TwoSidedBound ==
    Applied("boundScalar") =>
        LET x == proj.before[proj.ix]
            y == proj.after[proj.ix]
        IN  /\ x > proj.ub => (y = proj.ub /\ proj.cond = "SlipHigh")
            /\ (x <= proj.ub /\ x < proj.lb) =>
                  (y = proj.lb /\ proj.cond = "SlipLow")
            /\ (proj.lb <= x /\ x <= proj.ub) =>
                  (y = x /\ proj.cond = "Engaged")
            /\ proj.lb <= y /\ y <= proj.ub
            /\ (x = proj.lb \/ x = proj.ub) => proj.cond = "Engaged"

\* A multiplier exactly at the upper of two distinct bounds stayed engaged.
C17_Witness ==
    /\ Applied("boundScalar")
    /\ proj.lb < proj.ub
    /\ proj.before[proj.ix] = proj.ub
    /\ pi[proj.ix] = proj.ub
    /\ proj.cond = "Engaged"

\* What boundVector does to pi over IV for a scale factor within lo..hi.
CapScales(lo, hi) ==
    LET maxLen2 == square(proj.maxLen)
        piNorm2 == Norm2(proj.IV, proj.before)
    IN  /\ IF piNorm2 > maxLen2
           THEN LET scale == RSqrt(RDiv(maxLen2, piNorm2))
                IN  /\ lo <= scale /\ scale <= hi
                    /\ \A i \in Range(proj.IV) :
                          proj.after[i] = RMul(proj.before[i], scale)
                    /\ proj.cond = "Sliding"
           ELSE /\ proj.after = proj.before
                /\ proj.cond = "Rolling"
        /\ Len(proj.IV) = 0 =>
              (proj.after = proj.before /\ proj.cond = "Rolling")

\* C18 as stated: when the norm of pi over the set exceeds the cap L, the
\* norm cap multiplies every component of the set by the one factor
\* L/||pi||, strictly between 0 and 1, and reports sliding; otherwise it
\* changes nothing and reports rolling, as it always does for an empty set.
C18_ScaleStrictlyBetween ==
    Applied("boundVector") => CapScales(1, ONE - 1)

\* C18 amended: the factor L/||pi|| is strictly between 0 and 1 when L > 0
\* and is 0 when L = 0, which sets every component of the set to 0.
C18_ScaleBelowOne ==
    Applied("boundVector") =>
        /\ CapScales(0, ONE - 1)
        /\ (proj.maxLen > 0 /\ proj.cond = "Sliding") => CapScales(1, ONE - 1)
        /\ (proj.maxLen = 0 /\ proj.cond = "Sliding") =>
              \A i \in Range(proj.IV) : proj.after[i] = 0

\* A cap of 0 brought a nonzero pair to 0.
C18_Witness ==
    /\ Applied("boundVector")
    /\ proj.maxLen = 0
    /\ Len(proj.IV) = 2
    /\ \A i \in Range(proj.IV) : proj.before[i] # 0 /\ pi[i] = 0
    /\ proj.cond = "Sliding"

\* What boundFriction does to pi: rolling and nothing changed inside the
\* cone, else pi[IF] scaled by one common factor; pi[IN] never changed.
ConeScales ==
    LET N2    == Norm2(proj.IN_, proj.before)
        F2    == Norm2(proj.IV, proj.before)
        mu2N2 == RMul(RMul(proj.mu, proj.mu), N2)
    IN  /\ IF F2 <= mu2N2
           THEN /\ proj.after = proj.before
                /\ proj.cond = "Rolling"
           ELSE LET scale == RSqrt(RDiv(mu2N2, F2))
                IN  /\ \A i \in Range(proj.IV) :
                          proj.after[i] = RMul(proj.before[i], scale)
                    /\ \A i \in (1..M) \ Range(proj.IV) :
                          proj.after[i] = proj.before[i]
                    /\ proj.cond = "Sliding"
        /\ \A i \in Range(proj.IN_) : proj.after[i] = proj.before[i]

\* The squares the cone test compares, taken after the projection.
F2After == Norm2(proj.IV, proj.after)

Mu2N2After == RMul(RMul(proj.mu, proj.mu), Norm2(proj.IN_, proj.after))

\* C19 as stated: the friction-cone cap reports rolling and changes nothing
\* when ||pi[F]||^2 <= mu^2 ||pi[N]||^2, else reports sliding and scales
\* only pi[F] by one common factor; it never changes pi at N, and
\* afterwards ||pi[F]||^2 <= mu^2 ||pi[N]||^2.
C19_ConeHoldsAfter ==
    Applied("boundFriction") =>
        /\ ConeScales
        /\ F2After <= Mu2N2After

\* C19 amended: after a scaling ||pi[F]||^2 equals mu^2 ||pi[N]||^2 up to
\* the rounding of the scale factor, so it can exceed it by rounding
\* error; after rolling the inequality holds exactly.
C19_ConeHoldsWithinRounding ==
    Applied("boundFriction") =>
        /\ ConeScales
        /\ proj.cond = "Rolling" => F2After <= Mu2N2After
        /\ proj.cond = "Sliding" => WithinRounding(F2After, Mu2N2After)

\* A scaling onto a cone of positive width that rounding left just outside.
C19_Witness ==
    /\ Applied("boundFriction")
    /\ proj.cond = "Sliding"
    /\ proj.mu > 0
    /\ Mu2N2After > 0
    /\ F2After > Mu2N2After
    /\ \E i \in Range(proj.IV) : pi[i] # proj.before[i]

\* The status the record of the body last run holds now.
LastStatus ==
    CASE last.kind = "normal"   -> uniContact[last.k].m_contactCond
      [] last.kind = "friction" -> uniContact[last.k].m_frictionCond
      [] last.kind = "bounded"  -> bounded[last.k].m_boundedCond
      [] last.kind = "stateLtd" -> stateLtdFriction[last.k].m_frictionCond
      [] last.kind = "consLtd"  -> consLtdFriction[last.k].m_frictionCond
      [] OTHER                  -> "none"

\* The status the projection of this pass reports for the multipliers the
\* update of this pass produced.
LastProjected ==
    LET u == last.upd
    IN  CASE last.kind = "normal" ->
               LET rt == uniContact[last.k]
               IN  IF rt.m_sign * u[rt.m_Nk] > 0 THEN "UniOff"
                                                 ELSE "UniActive"
          [] last.kind = "bounded" ->
               LET rt == bounded[last.k]
               IN  IF u[rt.m_ix] > rt.m_ub THEN "SlipHigh"
                   ELSE IF u[rt.m_ix] < rt.m_lb THEN "SlipLow"
                   ELSE "Engaged"
          [] last.kind = "friction" ->
               LET rt == uniContact[last.k]
                   N  == Abs(IF rt.m_type = "Known" THEN rt.m_knownPi
                                                    ELSE u[rt.m_Nk])
               IN  IF Norm2(rt.m_Fk, u) <= square(RMul(rt.m_effMu, N))
                   THEN "Rolling" ELSE "Sliding"
          [] last.kind = "stateLtd" ->
               LET rt == stateLtdFriction[last.k]
               IN  IF Norm2(rt.m_Fk, u)
                         <= square(RMul(rt.m_effMu, rt.m_knownN))
                   THEN "Rolling" ELSE "Sliding"
          [] last.kind = "consLtd" ->
               LET rt == consLtdFriction[last.k]
               IN  IF Norm2(rt.m_Fk, u)
                         <= RMul(RMul(rt.m_effMu, rt.m_effMu),
                                 Norm2(rt.m_Nk, u))
                   THEN "Rolling" ELSE "Sliding"
          [] OTHER -> "none"

\* Whether the residual of the body last run counts as enforced.
LastEnforced ==
    \/ last.kind = "uncond"
    \/ last.kind = "normal" /\ LastStatus = "UniActive"
    \/ last.kind \in {"friction", "stateLtd", "consLtd"}
          /\ LastStatus = "Rolling"
    \/ last.kind = "bounded" /\ LastStatus = "Engaged"

\* The bodies a sweep runs: one for every record of the five partitions the
\* loops visit, the normals and frictions they pass over excepted.
SweepBodies ==
    {<<"uncond", i>> : i \in 1..Len(unconditional)}
    \cup {<<"normal", i>> : i \in {j \in 1..Len(uniContact) :
                                     uniContact[j].m_type = "Participate"}}
    \cup {<<"friction", i>> : i \in {j \in 1..Len(uniContact) :
                                     /\ uniContact[j].m_type # "Observe"
                                     /\ hasFriction(uniContact[j])}}
    \cup {<<"bounded", i>> : i \in 1..Len(bounded)}
    \cup {<<"stateLtd", i>> : i \in 1..Len(stateLtdFriction)}
    \cup {<<"consLtd", i>> : i \in 1..Len(consLtdFriction)}

GotWorse ==
    /\ Len(rmsHist) >= 1
    /\ rmsHist'[Len(rmsHist')] > rmsHist[Len(rmsHist)]

\* C21: the relaxation factor starts a solve at the configured m_SOR with
\* relax-downward mode off; the end of a sweep whose rmsEnforced is greater
\* than the previous sweep's latches relax-downward mode and, if sor > 0.1,
\* makes sor max(0.8*sor, 0.1); the end of any other sweep, the first
\* included, and every other step of the solve leave both as they are.
C21_RelaxationRule ==
    [][/\ (pc \in {"idle", "done"} /\ pc' = "loop") =>
             (sor' = m_SOR /\ ~decreasing')
       /\ (pc = "endsweep") =>
             /\ Len(rmsHist') = Len(rmsHist) + 1
             /\ rmsHist'[Len(rmsHist')] = normRMSenf'
             /\ IF GotWorse
                THEN /\ decreasing'
                     /\ sor' = IF sor > Dec(1, 10)
                               THEN RMax(RMul(Dec(8, 10), sor), Dec(1, 10))
                               ELSE sor
                ELSE sor' = sor /\ decreasing' = decreasing
       /\ (pc \notin {"idle", "done", "endsweep"}) =>
             (sor' = sor /\ decreasing' = decreasing)]_vars

\* A solve whose second sweep got worse and shrank the factor once, above
\* the floor, and whose third sweep did not get worse and left it alone.
C21_Witness ==
    /\ InSolve
    /\ Len(rmsHist) = 3
    /\ rmsHist[2] > rmsHist[1]
    /\ rmsHist[3] <= rmsHist[2]
    /\ decreasing
    /\ sor = RMul(Dec(8, 10), m_SOR)
    /\ sor > Dec(1, 10)

\* The normal indices of the contacts.
NormalIndices == {uniContact[c].m_Nk : c \in 1..Len(uniContact)}

\* C22: the friction of a contact is capped at mu times the absolute value
\* of its normal: for a participating contact pi at the normal index as
\* this sweep's normal loop left it (a normal body writes pi only at its
\* own normal index, a friction body only at its own friction indices, so
\* nothing has moved it since), for a Known contact the supplied m_knownPi
\* and not pi at the normal index; a state-limited friction group is capped
\* at mu times the supplied m_knownN.
C22_FrictionCap ==
    [][/\ (At("normal") /\ uniContact[k].m_type = "Participate") =>
             /\ \A j \in (1..M) \ {uniContact[k].m_Nk} : pi'[j] = pi[j]
             /\ uniContact[k].m_sign * pi'[uniContact[k].m_Nk] <= 0
       /\ (/\ At("friction")
           /\ uniContact[k].m_type # "Observe"
           /\ Len(uniContact[k].m_Fk) > 0) =>
             LET rt  == uniContact[k]
                 N   == IF rt.m_type = "Known" THEN rt.m_knownPi
                                               ELSE pi[rt.m_Nk]
                 cap == RMul(rt.m_effMu, Abs(N))
                 b   == boundVector(cap, rt.m_Fk, last'.upd)
             IN  /\ \A j \in NormalIndices : last'.upd[j] = pi[j]
                 /\ \A j \in (1..M) \ Range(rt.m_Fk) : pi'[j] = pi[j]
                 /\ pi' = b.pi
                 /\ uniContact'[k].m_frictionCond = b.cond
       /\ At("stateLtd") =>
             LET rt  == stateLtdFriction[k]
                 cap == RMul(rt.m_effMu, rt.m_knownN)
                 b   == boundVector(cap, rt.m_Fk, last'.upd)
             IN  /\ pi' = b.pi
                 /\ stateLtdFriction'[k].m_frictionCond = b.cond]_vars

\* The friction of a Known contact rolls inside the cone that m_knownPi
\* gives, though it lies outside the one pi at the normal index would give.
C22_Witness ==
    /\ InSolve /\ last.kind = "friction"
    /\ uniContact[last.k].m_type = "Known"
    /\ uniContact[last.k].m_frictionCond = "Rolling"
    /\ pi = last.upd
    /\ Norm2(uniContact[last.k].m_Fk, pi) > 0
    /\ Norm2(uniContact[last.k].m_Fk, pi)
          > square(RMul(uniContact[last.k].m_effMu,
                        Abs(pi[uniContact[last.k].m_Nk])))
    /\ Norm2(uniContact[last.k].m_Fk, pi)
          <= square(RMul(uniContact[last.k].m_effMu,
                         Abs(uniContact[last.k].m_knownPi)))

\* A sweep of the call in progress has been completed.
SweepCompleted ==
    \/ pc = "endsweep"
    \/ pc \in {"loop", "exit", "done"} /\ Len(rmsHist) >= 1

\* The squares of the caps of the three kinds of friction group, from pi.
ContactCap2(rt) ==
    square(RMul(rt.m_effMu,
                Abs(IF rt.m_type = "Known" THEN rt.m_knownPi
                                           ELSE pi[rt.m_Nk])))

StateLtdCap2(rt) == square(RMul(rt.m_effMu, rt.m_knownN))

ConsLtdCap2(rt) == RMul(RMul(rt.m_effMu, rt.m_effMu), Norm2(rt.m_Nk, pi))

\* The sign and bound conditions, and what holds of a released contact.
ScalarConditions ==
    /\ \A c \in 1..Len(uniContact) :
          LET rt == uniContact[c]
          IN  rt.m_type = "Participate" =>
                 /\ rt.m_sign * pi[rt.m_Nk] <= 0
                 /\ rt.m_contactCond = "UniOff" =>
                       /\ pi[rt.m_Nk] = 0
                       /\ \A f \in Range(rt.m_Fk) : pi[f] = 0
    /\ \A b \in 1..Len(bounded) :
          /\ bounded[b].m_lb <= pi[bounded[b].m_ix]
          /\ pi[bounded[b].m_ix] <= bounded[b].m_ub

\* x is at most y, up to the rounding of the arithmetic.
AtMostWithinRounding(x, y) == x <= y \/ WithinRounding(x, y)

\* C23 as stated: after every completed sweep sign*pi <= 0 for every
\* participating contact normal, lb <= pi <= ub for every bounded scalar,
\* the squared norm of every friction group is at most the square of its
\* cap, and a released participating contact has all its friction at 0.
C23_AllConditionsHold ==
    SweepCompleted =>
        /\ ScalarConditions
        /\ \A c \in 1..Len(uniContact) :
              Norm2(uniContact[c].m_Fk, pi) <= ContactCap2(uniContact[c])
        /\ \A g \in 1..Len(stateLtdFriction) :
              Norm2(stateLtdFriction[g].m_Fk, pi)
                 <= StateLtdCap2(stateLtdFriction[g])
        /\ \A g \in 1..Len(consLtdFriction) :
              Norm2(consLtdFriction[g].m_Fk, pi)
                 <= ConsLtdCap2(consLtdFriction[g])

\* C23 amended: the sign and bound conditions hold exactly, and a released
\* participating contact has all its friction at exactly 0; the squared
\* norm of a friction group that solve projects (not that of an Observe
\* contact) is at most the square of its cap up to the rounding of the
\* scale factor, and exactly so when the group reports rolling.
C23_ConditionsWithinRounding ==
    SweepCompleted =>
        /\ ScalarConditions
        /\ \A c \in 1..Len(uniContact) :
              LET rt == uniContact[c]
              IN  rt.m_type # "Observe" =>
                     /\ AtMostWithinRounding(Norm2(rt.m_Fk, pi),
                                             ContactCap2(rt))
                     /\ rt.m_frictionCond = "Rolling" =>
                           Norm2(rt.m_Fk, pi) <= ContactCap2(rt)
        /\ \A g \in 1..Len(stateLtdFriction) :
              LET rt == stateLtdFriction[g]
              IN  /\ AtMostWithinRounding(Norm2(rt.m_Fk, pi),
                                          StateLtdCap2(rt))
                  /\ rt.m_frictionCond = "Rolling" =>
                        Norm2(rt.m_Fk, pi) <= StateLtdCap2(rt)
        /\ \A g \in 1..Len(consLtdFriction) :
              LET rt == consLtdFriction[g]
              IN  /\ AtMostWithinRounding(Norm2(rt.m_Fk, pi),
                                          ConsLtdCap2(rt))
                  /\ rt.m_frictionCond = "Rolling" =>
                        Norm2(rt.m_Fk, pi) <= ConsLtdCap2(rt)

\* A completed sweep that released a participating contact and brought its
\* friction, nonzero on entry, to 0.
C23_Witness ==
    /\ pc = "endsweep"
    /\ \E c \in 1..Len(uniContact) :
          LET rt == uniContact[c]
          IN  /\ rt.m_type = "Participate"
              /\ rt.m_contactCond = "UniOff"
              /\ rt.m_frictionCond = "Sliding"
              /\ pi[rt.m_Nk] = 0
              /\ Len(rt.m_Fk) > 0
              /\ \A f \in Range(rt.m_Fk) : entry.pi[f] # 0 /\ pi[f] = 0

\* The status fields solve does not write are as they were on entry.
UnwrittenKept ==
    \A c \in 1..Len(uniContact) :
        LET rt  == uniContact[c]
            rt0 == entry.statuses.uniContact[c]
        IN  /\ rt.m_type # "Participate" =>
                  rt.m_contactCond = rt0.m_contactCond
            /\ (rt.m_type = "Observe" \/ Len(rt.m_Fk) = 0) =>
                  rt.m_frictionCond = rt0.m_frictionCond

\* The status fields solve writes hold what a projection reports, and the
\* scalar ones agree with the pi returned.
WrittenProjected ==
    /\ \A c \in 1..Len(uniContact) :
          LET rt == uniContact[c]
          IN  /\ rt.m_type = "Participate" =>
                    /\ rt.m_contactCond \in {"UniOff", "UniActive"}
                    /\ rt.m_contactCond = "UniOff" => pi[rt.m_Nk] = 0
              /\ (rt.m_type # "Observe" /\ Len(rt.m_Fk) > 0) =>
                    rt.m_frictionCond \in {"Rolling", "Sliding"}
    /\ \A b \in 1..Len(bounded) :
          LET rt == bounded[b]
          IN  /\ rt.m_boundedCond \in {"SlipLow", "Engaged", "SlipHigh"}
              /\ rt.m_boundedCond = "SlipHigh" => pi[rt.m_ix] = rt.m_ub
              /\ rt.m_boundedCond = "SlipLow" => pi[rt.m_ix] = rt.m_lb
    /\ \A g \in 1..Len(stateLtdFriction) :
          stateLtdFriction[g].m_frictionCond \in {"Rolling", "Sliding"}
    /\ \A g \in 1..Len(consLtdFriction) :
          consLtdFriction[g].m_frictionCond \in {"Rolling", "Sliding"}

\* A step of solve that changes a status field is the pass of the loop over
\* that field's constraint.
WrittenOnlyByOwnBody ==
    /\ \A c \in 1..Len(uniContact) :
          /\ uniContact'[c].m_contactCond # uniContact[c].m_contactCond =>
                (At("normal") /\ k = c)
          /\ uniContact'[c].m_frictionCond # uniContact[c].m_frictionCond =>
                (At("friction") /\ k = c)
    /\ \A b \in 1..Len(bounded) :
          bounded'[b] # bounded[b] => (At("bounded") /\ k = b)
    /\ \A g \in 1..Len(stateLtdFriction) :
          stateLtdFriction'[g] # stateLtdFriction[g] =>
             (At("stateLtd") /\ k = g)
    /\ \A g \in 1..Len(consLtdFriction) :
          consLtdFriction'[g] # consLtdFriction[g] =>
             (At("consLtd") /\ k = g)

\* C24: solve writes a status field only for the constraints it projects:
\* the normal status of a contact that is not participating, both status
\* fields of an Observe contact, the friction status of a contact without
\* friction and every unilateral-speed record stay as on entry; a field
\* that is written holds on return what the last sweep's projection
\* reported; a solve without a sweep writes no status field.
C24_StatusFrame ==
    /\ [](InSolve => UnwrittenKept)
    /\ [](pc = "done" =>
            IF Len(rmsHist) = 0
            THEN CurStatuses = entry.statuses
            ELSE CurStatuses = sweepEnd.statuses /\ WrittenProjected)
    /\ [][(pc \notin {"idle", "done"}) =>
            (uniSpeed' = uniSpeed /\ WrittenOnlyByOwnBody)]_vars

\* A returned solve that swept: the friction status of a Known contact was
\* written, its normal status was not; beside it a bounded scalar.
C24_Witness ==
    /\ pc = "done" /\ Len(rmsHist) >= 1
    /\ Len(bounded) = 1
    /\ bounded[1].m_boundedCond # BndNA
    /\ \E c \in 1..Len(uniContact) :
          /\ uniContact[c].m_type = "Known"
          /\ uniContact[c].m_frictionCond \in {"Rolling", "Sliding"}
          /\ uniContact[c].m_contactCond = UniNA
          /\ entry.statuses.uniContact[c].m_frictionCond = FricNA

====
